---- MODULE Spec2Model ----
(***************************************************************************)
(* A model of nvim_upgrade (src/src/main.rs): the process shell (main,     *)
(* async_handle, check_files), the two spawned tasks (get_current,         *)
(* get_latest) and their join, the comparison in run, the streamed install *)
(* of do_upgrade and the marker write.  The file system (artifact and      *)
(* marker) persists across runs of the program; everything else is reset   *)
(* when a new process starts.                                              *)
(***************************************************************************)
EXTENDS Integers, Sequences, FiniteSets

VARIABLES
    pc,         \* position of the main thread / the run future
    app,        \* the file at APP_PATH: [exists, bytes, mode]
    marker,     \* the file at VERSION:  [exists, text]
    client,     \* the CLIENT OnceCell: "unset" | "set"
    read_file,  \* the argument of run, the result of check_files
    cur,        \* the spawned get_current task: [st, val]
    feed,       \* the spawned get_latest task:  [st, val]
    sel,        \* what the join handed to run: [current, latest, down_url]
    dl,         \* the download in do_upgrade: [total_size, stream, pos, downloaded]
    result,     \* the Result the run (or the shell before it) ended with
    exitCode,   \* the process exit code, -1 while the process runs
    runs,       \* number of processes started so far
    h           \* history of this run (observations only, never read by the program)

vars == <<pc, app, marker, client, read_file, cur, feed, sel, dl, result, exitCode, runs, h>>

----------------------------------------------------------------------------
(* Bounds of the model *)

MaxRuns == 2        \* processes started one after the other on the same file system
MaxChunkLen == 2    \* longest chunk the byte stream delivers

(* Program constants *)

Mode755 == 493      \* 0o755
NewFileMode == 420  \* 0o666 masked by the usual umask 0o022: a created file

----------------------------------------------------------------------------
(* Sequences helpers *)

min(a, b) == IF a <= b THEN a ELSE b

Take(s, n) == SubSeq(s, 1, min(n, Len(s)))

Drop(s, n) == SubSeq(s, n + 1, Len(s))

\* writing data at offset pos of a file holding bytes (pos <= Len(bytes)):
\* the bytes under the write are replaced, the bytes after it stay
WriteAt(bytes, pos, data) ==
    Take(bytes, pos) \o data \o Drop(bytes, pos + Len(data))

RECURSIVE SumLen(_)
SumLen(chunks) ==
    IF chunks = <<>> THEN 0 ELSE Len(Head(chunks)) + SumLen(Tail(chunks))

RECURSIVE Flatten(_)
Flatten(chunks) ==
    IF chunks = <<>> THEN <<>> ELSE Head(chunks) \o Flatten(Tail(chunks))

----------------------------------------------------------------------------
(* Versions: major.minor.patch, ordered as semver orders them *)

Sentinel == <<0, 0, 0>>

Releases == { <<1, 2, 0>>, <<1, 3, 0>> }

\* Ord::cmp of semver::Version on versions without pre-release or build part
Cmp(a, b) ==
    IF a[1] # b[1] THEN (IF a[1] < b[1] THEN "Less" ELSE "Greater")
    ELSE IF a[2] # b[2] THEN (IF a[2] < b[2] THEN "Less" ELSE "Greater")
    ELSE IF a[3] # b[3] THEN (IF a[3] < b[3] THEN "Less" ELSE "Greater")
    ELSE "Equal"

DigitChars == <<"0", "1", "2", "3", "4", "5", "6", "7", "8", "9">>

RECURSIVE Digits(_)
Digits(n) ==
    IF n < 10 THEN << DigitChars[n + 1] >>
    ELSE Digits(n \div 10) \o << DigitChars[(n % 10) + 1] >>

\* Version::to_string: the canonical text, a sequence of characters
to_string(v) == Digits(v[1]) \o <<".">> \o Digits(v[2]) \o <<".">> \o Digits(v[3])

IsDigit(c) == \E i \in 1..10 : DigitChars[i] = c

DigitVal(c) == (CHOOSE i \in 1..10 : DigitChars[i] = c) - 1

RECURSIVE NumVal(_)
NumVal(s) ==
    IF s = <<>> THEN 0
    ELSE 10 * NumVal(SubSeq(s, 1, Len(s) - 1)) + DigitVal(s[Len(s)])

\* a numeric identifier of semver: digits only, no leading zero
IsNumeric(s) ==
    /\ s # <<>>
    /\ \A i \in 1..Len(s) : IsDigit(s[i])
    /\ (Len(s) > 1 => s[1] # "0")

\* str::split(c): every piece between separators, empty pieces included
RECURSIVE Split(_, _)
Split(s, c) ==
    IF \A i \in 1..Len(s) : s[i] # c THEN << s >>
    ELSE LET k == CHOOSE i \in 1..Len(s) : s[i] = c /\ \A j \in 1..(i - 1) : s[j] # c
         IN  << SubSeq(s, 1, k - 1) >> \o Split(Drop(s, k), c)

\* a Result: Ok(value) or Err(message)
Ok(v) == [ok |-> TRUE, val |-> v]

Err(m) == [ok |-> FALSE, val |-> m]

\* str::parse::<Version> on texts without pre-release or build part
ParseVersion(s) ==
    LET parts == Split(s, ".")
    IN  IF Len(parts) = 3 /\ \A i \in 1..3 : IsNumeric(parts[i])
        THEN Ok(<< NumVal(parts[1]), NumVal(parts[2]), NumVal(parts[3]) >>)
        ELSE Err("unexpected character while parsing version")

----------------------------------------------------------------------------
(* The release feed: what the GitHub API may answer *)

AppImageType == "application/vnd.appimage"

\* the text of a download URL; a text with no scheme does not parse as a Url
UrlText(kind, v) == [scheme |-> "https", file |-> kind, rel |-> v]

BadUrlText(v) == [scheme |-> "", file |-> "appimage", rel |-> v]

\* str::parse::<Url>
ParseUrl(t) ==
    IF t.scheme = "https" THEN Ok(t) ELSE Err("Failed to parse Url from JSON")

Asset(ct, url) == [content_type |-> ct, browser_download_url |-> url]

GoodAssets(v) ==
    << Asset("application/zip", UrlText("zip", v)),
       Asset(AppImageType, UrlText("appimage", v)),
       Asset(AppImageType, UrlText("appimage2", v)) >>

\* a word of a body line, with what it is: a version tag "vX.Y.Z" ("version"), a
\* word starting with v that is no such tag ("badversion"), or any other word ("word")
Word(chars) == [chars |-> chars, kind |-> "word", ver |-> Sentinel]

VTok(v) == [chars |-> <<"v">> \o to_string(v), kind |-> "version", ver |-> v]

BadTok(chars) == [chars |-> <<"v">> \o chars, kind |-> "badversion", ver |-> Sentinel]

N == Word(<<"N">>)

Empty == Word(<<>>)

Words ==
    { Word(to_string(<<1, 2, 0>>)),                   \* the version without 'v'
      Word(<<"V", "1", ".", "2", ".", "0">>),         \* capital V
      Empty,
      N }

BadToks ==
    { BadTok(<<"1", ".", "2">>),                      \* two components
      BadTok(<<>>),                                   \* a lone v
      BadTok(<<"v", "1", ".", "3", ".", "0">>),       \* vv1.3.0
      BadTok(<<"1", ".", "x", ".", "0">>) }           \* a letter for a number

LF == <<"\n">>

CRLF == <<"\r", "\n">>

\* a body as its lines (each a sequence of words), the line ending used between the
\* lines, and whether the last line is ended too
Shape(lines, eol, term) == [lines |-> lines, eol |-> eol, term |-> term]

GoodShape(v) == Shape(<< <<N>>, <<N, VTok(v)>>, <<N>> >>, LF, FALSE)

Shapes ==
    { GoodShape(v) : v \in Releases }
    \cup { Shape(<< <<N>>, <<N, t>> >>, LF, FALSE) : t \in Words \cup BadToks }
    \cup { Shape(<< <<N>> >>, LF, FALSE),                              \* one line
           Shape(<< <<N>> >>, LF, TRUE),                               \* one line, ended
           Shape(<< <<N, VTok(<<1, 3, 0>>)>>, <<N>> >>, LF, FALSE),    \* tag in line 1
           Shape(<< <<N>>, <<VTok(<<1, 3, 0>>)>> >>, LF, FALSE),       \* tag is word 1
           Shape(<< <<N>>, <<Empty>>, <<N, VTok(<<1, 3, 0>>)>> >>, LF, FALSE),  \* tag in line 3
           Shape(<< <<N>>, <<N, Empty, VTok(<<1, 3, 0>>)>> >>, LF, FALSE),      \* two spaces
           Shape(<< <<N>>, <<Empty, VTok(<<1, 3, 0>>)>> >>, LF, TRUE),          \* leading space
           Shape(<< <<N, N>>, <<N, VTok(<<1, 3, 0>>), N, N>> >>, LF, TRUE),
           Shape(<< <<N>>, <<N, VTok(<<1, 3, 0>>)>>, <<N>> >>, CRLF, TRUE) }

RECURSIVE Joined(_, _)
Joined(parts, sep) ==
    IF parts = <<>> THEN <<>>
    ELSE IF Len(parts) = 1 THEN parts[1]
    ELSE parts[1] \o sep \o Joined(Tail(parts), sep)

\* the text of a body of the given shape
Render(shape) ==
    LET line(l) == Joined([i \in 1..Len(l) |-> l[i].chars], <<" ">>)
    IN  Joined([i \in 1..Len(shape.lines) |-> line(shape.lines[i])], shape.eol)
        \o (IF shape.term THEN shape.eol ELSE <<>>)

\* a release body as GitHub writes it: a title line, then "N vX.Y.Z", then notes
GoodBody(v) == Render(GoodShape(v))

\* the asset lists a release with a well-formed body may carry
AssetLists(v) ==
    { GoodAssets(v),
      << Asset(AppImageType, UrlText("appimage", v)) >>,
      << Asset(AppImageType, UrlText("appimage", v)),
         Asset(AppImageType, UrlText("appimage2", v)),
         Asset("application/zip", UrlText("zip", v)) >>,
      << Asset("Application/vnd.appimage", UrlText("zip", v)),
         Asset("application/vnd.appimage.zsync", UrlText("zsync", v)),
         Asset(AppImageType, UrlText("appimage", v)) >>,
      << Asset("application/zip", UrlText("zip", v)) >>,
      << >>,
      << Asset(AppImageType, BadUrlText(v)) >>,
      << Asset(AppImageType, BadUrlText(v)), Asset(AppImageType, UrlText("appimage", v)) >> }

Response(shape, assets) ==
    [json |-> TRUE, body |-> Render(shape), assets |-> assets, shape |-> shape]

\* a response that is not the expected JSON
NoResponse == [json |-> FALSE, body |-> <<>>, assets |-> <<>>, shape |-> Shape(<<>>, LF, FALSE)]

\* every response names one release: its body and its assets belong together
FeedResponses ==
    { Response(GoodShape(v), GoodAssets(v)) : v \in Releases }
    \cup { Response(s, GoodAssets(<<1, 3, 0>>)) : s \in Shapes \ { GoodShape(v) : v \in Releases } }
    \cup { Response(GoodShape(<<1, 3, 0>>), a) : a \in AssetLists(<<1, 3, 0>>) }
    \cup { NoResponse }

\* str::lines: split on "\n", a trailing empty piece is no line, a trailing "\r" is cut
Lines(s) ==
    LET ps == Split(s, "\n")
        qs == IF ps[Len(ps)] = <<>> THEN SubSeq(ps, 1, Len(ps) - 1) ELSE ps
        Cut(l) == IF l # <<>> /\ l[Len(l)] = "\r" THEN SubSeq(l, 1, Len(l) - 1) ELSE l
    IN  [i \in 1..Len(qs) |-> Cut(qs[i])]

\* ExtractVersion off by one: nth(0) of the split, the first segment of the line
ExtractVersion_firstSegment(body) ==
    LET ls == Lines(body) IN
    IF Len(ls) < 2 THEN Err("Could not get second line of 'body'") ELSE
    LET segs == Split(ls[2], " ") IN
    IF Len(segs) < 1 THEN Err("Could not get second segment of second line of 'body'") ELSE
    LET seg == segs[1] IN
    IF seg = <<>> \/ seg[1] # "v" THEN Err("Could not strip 'v' from segment") ELSE
    LET p == ParseVersion(Tail(seg)) IN
    IF p.ok THEN p ELSE Err("Failed to parse version from 'body'")

\* get_latest, lines 73-77: the version from the second segment of the second line
ExtractVersion(body) ==
    LET ls == Lines(body) IN
    IF Len(ls) < 2 THEN Err("Could not get second line of 'body'") ELSE
    LET segs == Split(ls[2], " ") IN
    IF Len(segs) < 2 THEN Err("Could not get second segment of second line of 'body'") ELSE
    LET seg == segs[2] IN
    IF seg = <<>> \/ seg[1] # "v" THEN Err("Could not strip 'v' from segment") ELSE
    LET p == ParseVersion(Tail(seg)) IN
    IF p.ok THEN p ELSE Err("Failed to parse version from 'body'")

\* FindAsset keeping the last match instead of the first
RECURSIVE FindAsset_last(_)
FindAsset_last(assets) ==
    IF assets = <<>> THEN Err("Could not find correct asset")
    ELSE LET later == FindAsset_last(Tail(assets)) IN
         IF later.ok THEN later
         ELSE IF Head(assets).content_type = AppImageType THEN Ok(Head(assets))
         ELSE later

\* Iterator::find: the first asset of the list with the AppImage content type
RECURSIVE FindAsset(_)
FindAsset(assets) ==
    IF assets = <<>> THEN Err("Could not find correct asset")
    ELSE IF Head(assets).content_type = AppImageType THEN Ok(Head(assets))
    ELSE FindAsset(Tail(assets))

\* SelectUrl without the content type test: the first asset of the list is taken
SelectUrl_first(assets) ==
    IF assets = <<>> THEN Err("Could not find correct asset")
    ELSE ParseUrl(Head(assets).browser_download_url)

\* get_latest, lines 79-83
SelectUrl(assets) ==
    LET a == FindAsset(assets) IN
    IF ~a.ok THEN a ELSE ParseUrl(a.val.browser_download_url)

\* get_latest, lines 73-85, on a decoded response
LatestOf(res) ==
    LET v == ExtractVersion(res.body) IN
    IF ~v.ok THEN v ELSE
    LET u == SelectUrl(res.assets) IN
    IF ~u.ok THEN u ELSE Ok([version |-> v.val, down_url |-> u.val])

----------------------------------------------------------------------------
(* The download server *)

\* the bytes served at a url: the AppImage of release v is PayloadLen(v) bytes,
\* each tagged with v; the newer release is the shorter file
PayloadLen(v) == IF v = <<1, 3, 0>> THEN 2 ELSE 3

Payload(url) ==
    IF url.file = "appimage" THEN [i \in 1..PayloadLen(url.rel) |-> url.rel]
    ELSE [i \in 1..2 |-> <<9, 9, 9>>]

\* every way of cutting bytes into chunks of 1..MaxChunkLen bytes
RECURSIVE Chunkings(_)
Chunkings(bytes) ==
    IF bytes = <<>> THEN { <<>> }
    ELSE UNION { { << Take(bytes, n) >> \o rest : rest \in Chunkings(Drop(bytes, n)) }
                 : n \in 1..min(MaxChunkLen, Len(bytes)) }

\* Response::content_length: the declared length, which a server may understate
DeclaredLengths(bytes) == { Len(bytes), Len(bytes) - 1 }

----------------------------------------------------------------------------
(* State *)

NoFile == [exists |-> FALSE, bytes |-> <<>>, mode |-> 0]

Installed(v) == [exists |-> TRUE, bytes |-> Payload(UrlText("appimage", v)), mode |-> Mode755]

NoMarker == [exists |-> FALSE, text |-> <<>>]

MarkerOf(v) == [exists |-> TRUE, text |-> to_string(v)]

\* a marker an editor saved with a final newline: no version text
StaleMarker == [exists |-> TRUE, text |-> to_string(<<1, 2, 0>>) \o <<"\n">>]

Idle == [st |-> "idle", val |-> <<>>, msg |-> ""]

Running == [st |-> "running", src |-> "", msg |-> ""]

Failed(src, msg) == [st |-> "err", src |-> src, msg |-> msg]

Succeeded == [st |-> "ok", src |-> "", msg |-> ""]

NoSel == [current |-> Sentinel, latest |-> Sentinel, down_url |-> UrlText("", Sentinel)]

NoDl == [total_size |-> 0, stream |-> <<>>, pos |-> 0, downloaded |-> 0]

\* what a run has done so far, for the properties only
History(m, a) ==
    [marker0 |-> m, app0 |-> a, feedReqs |-> 0, downReqs |-> 0, opens |-> 0, chmods |-> 0,
     markerWrites |-> 0, reqUrl |-> UrlText("", Sentinel), compared |-> "no",
     installOk |-> FALSE, markerOk |-> FALSE, sent |-> <<>>, positions |-> <<>>,
     markerReads |-> 0, resp |-> NoResponse,
     prev |-> [upgraded |-> FALSE, latest |-> Sentinel]]

\* the file systems a first run may find: nothing installed, a release installed with
\* its marker, with a marker that is no version text or with the marker lost, and a
\* marker whose artifact was removed
InitFiles ==
    { <<NoFile, NoMarker>> }
    \cup { <<Installed(v), MarkerOf(v)>> : v \in Releases }
    \cup { <<Installed(v), m>> : v \in Releases, m \in {NoMarker, StaleMarker} }
    \cup { <<NoFile, MarkerOf(v)>> : v \in Releases }

Init ==
    /\ pc = "main"
    /\ \E f \in InitFiles : app = f[1] /\ marker = f[2] /\ h = History(f[2], f[1])
    /\ client = "unset"
    /\ read_file = FALSE
    /\ cur = Idle
    /\ feed = Idle
    /\ sel = NoSel
    /\ dl = NoDl
    /\ result = Running
    /\ exitCode = -1
    /\ runs = 1

\* the run (or the shell) returns r: the Result travels to main, which reports it
Return(r) ==
    /\ result' = r
    /\ pc' = "report"

----------------------------------------------------------------------------
(* The process shell *)

\* main, lines 161-165: the runtime is built, or main ends with Fail
BuildRuntime ==
    /\ pc = "main"
    /\ \E built \in BOOLEAN :
         IF built THEN pc' = "async_handle" /\ result' = result
         ELSE Return(Failed("main", "Failed to build runtime"))
    /\ UNCHANGED <<app, marker, client, read_file, cur, feed, sel, dl, exitCode, runs, h>>

\* async_handle, lines 149-155: the client is built and stored in CLIENT
BuildClient ==
    /\ pc = "async_handle"
    /\ \E built \in BOOLEAN :
         IF ~built
         THEN Return(Failed("async_handle", "Failed to build client")) /\ client' = client
         ELSE IF client = "set"
         THEN Return(Failed("async_handle", "Failed to initialize CLIENT")) /\ client' = client
         ELSE pc' = "check_files" /\ client' = "set" /\ result' = result
    /\ UNCHANGED <<app, marker, read_file, cur, feed, sel, dl, exitCode, runs, h>>

\* check_files, lines 137-146: both paths are probed, then the results are combined
check_files ==
    /\ pc = "check_files"
    /\ \E ok1 \in BOOLEAN, ok2 \in BOOLEAN :
         IF ~ok1 THEN Return(Failed("check_files", "Failed to access APP_PATH"))
                      /\ read_file' = read_file
         ELSE IF ~ok2 THEN Return(Failed("check_files", "Failed to access VERSION"))
                           /\ read_file' = read_file
         ELSE /\ read_file' = (app.exists /\ marker.exists)
              /\ pc' = "run"
              /\ result' = result
    /\ UNCHANGED <<app, marker, client, cur, feed, sel, dl, exitCode, runs, h>>

\* report with both arms yielding ExitCode::SUCCESS
report_zero ==
    /\ pc = "report"
    /\ exitCode' = 0
    /\ pc' = "exited"
    /\ UNCHANGED <<app, marker, client, read_file, cur, feed, sel, dl, result, runs, h>>

\* MyExit::report, lines 34-39, after main mapped the Result (line 167)
report ==
    /\ pc = "report"
    /\ exitCode' = IF result.st = "err" THEN 1 ELSE 0
    /\ pc' = "exited"
    /\ UNCHANGED <<app, marker, client, read_file, cur, feed, sel, dl, result, runs, h>>

\* the program is started again on the files the last process left
NextRun ==
    /\ pc = "exited"
    /\ runs < MaxRuns
    /\ runs' = runs + 1
    /\ pc' = "main"
    /\ client' = "unset"
    /\ read_file' = FALSE
    /\ cur' = Idle
    /\ feed' = Idle
    /\ sel' = NoSel
    /\ dl' = NoDl
    /\ result' = Running
    /\ exitCode' = -1
    /\ h' = [History(marker, app) EXCEPT
                 !.prev = [upgraded |-> h.markerOk,
                           latest |-> IF h.markerOk THEN sel.latest ELSE Sentinel]]
    /\ UNCHANGED <<app, marker>>

----------------------------------------------------------------------------
(* run: the two spawned tasks and their join *)

\* run, line 122: try_async_spawn! spawns get_current(read_file) and get_latest()
Spawn ==
    /\ pc = "run"
    /\ cur' = [st |-> "pending", val |-> <<>>, msg |-> ""]
    /\ feed' = [st |-> "pending", val |-> <<>>, msg |-> ""]
    /\ pc' = "join"
    /\ UNCHANGED <<app, marker, client, read_file, sel, dl, result, exitCode, runs, h>>

TaskOk(v) == [st |-> "ok", val |-> v, msg |-> ""]

TaskErr(m) == [st |-> "err", val |-> <<>>, msg |-> m]

\* CurrentOf with the flag ignored: the marker is read and parsed in every case
CurrentOf_always(readFile, readOk, text) ==
    IF ~readOk THEN TaskErr("Failed to access VERSION")
    ELSE LET p == ParseVersion(text) IN
         IF p.ok THEN TaskOk(p.val)
         ELSE TaskErr("Failed to parse current nvim version")

\* get_current, lines 58-64, on the outcome of the read (a text, or a failure)
CurrentOf(readFile, readOk, text) ==
    IF readFile
    THEN IF ~readOk THEN TaskErr("Failed to access VERSION")
         ELSE LET p == ParseVersion(text) IN
              IF p.ok THEN TaskOk(p.val)
              ELSE TaskErr("Failed to parse current nvim version")
    ELSE LET p == ParseVersion(<<"0", ".", "0", ".", "0">>) IN
         IF p.ok THEN TaskOk(p.val)
         ELSE TaskErr("Failed to parse current nvim version")

\* the get_current task runs: it reads the marker only when read_file is set
get_current ==
    /\ pc = "join"
    /\ cur.st = "pending"
    /\ \E readOk \in (IF read_file THEN {marker.exists, FALSE} ELSE {TRUE}) :
         cur' = CurrentOf(read_file, readOk, marker.text)
    /\ h' = [h EXCEPT !.markerReads = IF read_file THEN @ + 1 ELSE @]
    /\ UNCHANGED <<pc, app, marker, client, read_file, feed, sel, dl, result, exitCode, runs>>

\* get_latest, lines 67-70: one GET to NVIM_API, answered or not
get_latest_send ==
    /\ pc = "join"
    /\ feed.st = "pending"
    /\ IF client # "set"
       THEN feed' = TaskErr("Failed to access CLIENT.") /\ h' = h
       ELSE /\ h' = [h EXCEPT !.feedReqs = @ + 1]
            /\ \/ feed' = TaskErr("JSON Request Failed")
               \/ \E r \in FeedResponses : feed' = [st |-> "responded", val |-> r, msg |-> ""]
    /\ UNCHANGED <<pc, app, marker, client, read_file, cur, sel, dl, result, exitCode, runs>>

\* get_latest, lines 71-85: the response is decoded, version and url are taken from it
get_latest_parse ==
    /\ pc = "join"
    /\ feed.st = "responded"
    /\ feed' = IF ~feed.val.json THEN TaskErr("JSON Conversion Failed")
               ELSE LET r == LatestOf(feed.val) IN
                    IF r.ok THEN TaskOk(r.val) ELSE TaskErr(r.val)
    /\ h' = [h EXCEPT !.resp = feed.val]
    /\ UNCHANGED <<pc, app, marker, client, read_file, cur, sel, dl, result, exitCode, runs>>

\* what the join of line 122 yields when it is polled: the branches are looked at
\* in the order they are written, the first one that failed ends the join
JoinResult(c, f) ==
    IF c.st = "err" THEN [st |-> "err", src |-> "get_current", msg |-> c.msg]
    ELSE IF f.st = "err" THEN [st |-> "err", src |-> "get_latest", msg |-> f.msg]
    ELSE IF c.st = "ok" /\ f.st = "ok" THEN [st |-> "ok", src |-> "", msg |-> ""]
    ELSE [st |-> "pending", src |-> "", msg |-> ""]

\* Join with the feed's failure swallowed: the run ends as if nothing were to do
Join_default ==
    /\ pc = "join"
    /\ LET j == JoinResult(cur, feed) IN
       /\ j.st # "pending"
       /\ IF j.st = "err"
          THEN /\ Return(IF j.src = "get_latest" THEN Succeeded ELSE Failed(j.src, j.msg))
               /\ sel' = sel
          ELSE /\ sel' = [current |-> cur.val, latest |-> feed.val.version,
                          down_url |-> feed.val.down_url]
               /\ pc' = "compare"
               /\ result' = result
    /\ UNCHANGED <<app, marker, client, read_file, cur, feed, dl, exitCode, runs, h>>

\* Join as a race: the run goes on as soon as the version read is there, with the
\* feed's answer if it has come and the default version otherwise
Join_race ==
    /\ pc = "join"
    /\ cur.st = "ok"
    /\ sel' = IF feed.st = "ok"
              THEN [current |-> cur.val, latest |-> feed.val.version,
                    down_url |-> feed.val.down_url]
              ELSE [NoSel EXCEPT !.current = cur.val]
    /\ pc' = "compare"
    /\ UNCHANGED <<app, marker, client, read_file, cur, feed, dl, result, exitCode, runs, h>>

\* run, line 122: .await? on the join
Join ==
    /\ pc = "join"
    /\ LET j == JoinResult(cur, feed) IN
       /\ j.st # "pending"
       /\ IF j.st = "err"
          THEN Return(Failed(j.src, j.msg)) /\ sel' = sel
          ELSE /\ sel' = [current |-> cur.val, latest |-> feed.val.version,
                          down_url |-> feed.val.down_url]
               /\ pc' = "compare"
               /\ result' = result
    /\ UNCHANGED <<app, marker, client, read_file, cur, feed, dl, exitCode, runs, h>>

\* RunArm with Equal falling into the Greater arm (>= for >)
RunArm_ge(latest, current) ==
    CASE Cmp(latest, current) \in {"Equal", "Greater"} -> "Upgrading"
      [] OTHER -> "Inconsistent"

\* RunArm with the Less arm folded into Equal: a newer local version is ignored
RunArm_ignoreLess(latest, current) ==
    CASE Cmp(latest, current) = "Greater" -> "Upgrading"
      [] OTHER -> "UpToDate"

\* RunArm with the operands of cmp exchanged: current.cmp(&latest)
RunArm_swapped(latest, current) ==
    CASE Cmp(current, latest) = "Equal" -> "UpToDate"
      [] Cmp(current, latest) = "Greater" -> "Upgrading"
      [] OTHER -> "Inconsistent"

\* run, lines 124-134: the three arms of the match
RunArm(latest, current) ==
    CASE Cmp(latest, current) = "Equal" -> "UpToDate"
      [] Cmp(latest, current) = "Greater" -> "Upgrading"
      [] OTHER -> "Inconsistent"

Compare ==
    /\ pc = "compare"
    /\ LET arm == RunArm(sel.latest, sel.current) IN
       /\ h' = [h EXCEPT !.compared = arm]
       /\ CASE arm = "UpToDate" -> Return(Succeeded)
            [] arm = "Upgrading" -> pc' = "do_upgrade" /\ result' = result
            [] OTHER -> Return(Failed("run", "How did you get a newer version than the latest?"))
    /\ UNCHANGED <<app, marker, client, read_file, cur, feed, sel, dl, exitCode, runs>>

----------------------------------------------------------------------------
(* do_upgrade: the streamed install *)

\* OpenOptions::new().create(true).write(true).open: an existing file is opened as
\* it is, a missing one is created empty; the write position is 0
OpenedFile(f) ==
    IF f.exists THEN f ELSE [exists |-> TRUE, bytes |-> <<>>, mode |-> NewFileMode]

\* download with the destination opened before the request is sent: the file is
\* created although the request, or its content length, fails
download_opensFirst ==
    /\ pc = "do_upgrade"
    /\ \/ /\ h' = [h EXCEPT !.downReqs = @ + 1, !.reqUrl = sel.down_url, !.opens = @ + 1]
          /\ app' = OpenedFile(app)
          /\ Return(Failed("do_upgrade", "Download GET request failed"))
          /\ dl' = dl
       \/ /\ h' = [h EXCEPT !.downReqs = @ + 1, !.reqUrl = sel.down_url, !.opens = @ + 1]
          /\ app' = OpenedFile(app)
          /\ Return(Failed("do_upgrade", "Failed to get size of response body."))
          /\ dl' = dl
       \/ \E chunks \in Chunkings(Payload(sel.down_url)) :
          \E n \in DeclaredLengths(Payload(sel.down_url)) :
            /\ h' = [h EXCEPT !.downReqs = @ + 1, !.reqUrl = sel.down_url,
                              !.sent = chunks]
            /\ app' = app
            /\ dl' = [total_size |-> n, stream |-> chunks, pos |-> 0, downloaded |-> 0]
            /\ pc' = "open"
            /\ result' = result
    /\ UNCHANGED <<marker, client, read_file, cur, feed, sel, exitCode, runs>>

\* download with a retry: a failed GET is issued once more instead of ending the run
download_retry ==
    /\ pc = "do_upgrade"
    /\ \/ /\ h.downReqs < 2
          /\ h' = [h EXCEPT !.downReqs = @ + 1, !.reqUrl = sel.down_url]
          /\ dl' = dl /\ pc' = pc /\ result' = result
       \/ /\ h' = [h EXCEPT !.downReqs = @ + 1, !.reqUrl = sel.down_url]
          /\ Return(Failed("do_upgrade", "Failed to get size of response body."))
          /\ dl' = dl
       \/ \E chunks \in Chunkings(Payload(sel.down_url)) :
          \E n \in DeclaredLengths(Payload(sel.down_url)) :
            /\ h' = [h EXCEPT !.downReqs = @ + 1, !.reqUrl = sel.down_url,
                              !.sent = chunks]
            /\ dl' = [total_size |-> n, stream |-> chunks, pos |-> 0, downloaded |-> 0]
            /\ pc' = "open"
            /\ result' = result
    /\ UNCHANGED <<app, marker, client, read_file, cur, feed, sel, exitCode, runs>>

\* do_upgrade, lines 89-95: the GET to down_url and the declared length
download ==
    /\ pc = "do_upgrade"
    /\ IF client # "set"
       THEN Return(Failed("do_upgrade", "Failed to access CLIENT.")) /\ h' = h /\ dl' = dl
       ELSE \/ /\ h' = [h EXCEPT !.downReqs = @ + 1, !.reqUrl = sel.down_url]
               /\ Return(Failed("do_upgrade", "Download GET request failed"))
               /\ dl' = dl
            \/ /\ h' = [h EXCEPT !.downReqs = @ + 1, !.reqUrl = sel.down_url]
               /\ Return(Failed("do_upgrade", "Failed to get size of response body."))
               /\ dl' = dl
            \/ \E chunks \in Chunkings(Payload(sel.down_url)) :
               \E n \in DeclaredLengths(Payload(sel.down_url)) :
                 /\ h' = [h EXCEPT !.downReqs = @ + 1, !.reqUrl = sel.down_url,
                                   !.sent = chunks]
                 /\ dl' = [total_size |-> n, stream |-> chunks, pos |-> 0, downloaded |-> 0]
                 /\ pc' = "open"
                 /\ result' = result
    /\ UNCHANGED <<app, marker, client, read_file, cur, feed, sel, exitCode, runs>>

\* do_upgrade, lines 97-100
open ==
    /\ pc = "open"
    /\ h' = [h EXCEPT !.opens = @ + 1]
    /\ \/ Return(Failed("do_upgrade", "Failed to access APP_PATH")) /\ app' = app
       \/ app' = OpenedFile(app) /\ pc' = "stream" /\ result' = result
    /\ UNCHANGED <<marker, client, read_file, cur, feed, sel, dl, exitCode, runs>>

\* do_upgrade, line 103: the stream yields an error instead of the next chunk
chunk_read_fail ==
    /\ pc = "stream"
    /\ dl.stream # <<>>
    /\ Return(Failed("do_upgrade", "Error while downloading 'nvim.appimage'"))
    /\ UNCHANGED <<app, marker, client, read_file, cur, feed, sel, dl, exitCode, runs, h>>

\* do_upgrade, line 104: write_all fails after k bytes of the chunk reached the file
chunk_write_fail ==
    /\ pc = "stream"
    /\ dl.stream # <<>>
    /\ \E k \in 0..(Len(Head(dl.stream)) - 1) :
         app' = [app EXCEPT !.bytes = WriteAt(@, dl.pos, Take(Head(dl.stream), k))]
    /\ Return(Failed("do_upgrade", "Error while writing to APP_PATH"))
    /\ UNCHANGED <<marker, client, read_file, cur, feed, sel, dl, exitCode, runs, h>>

\* Progress without the cap: the position is the plain running sum
Progress_uncapped(downloaded, len, total_size) == downloaded + len

\* do_upgrade, line 105: the position the progress bar is given
Progress(downloaded, len, total_size) == min(downloaded + len, total_size)

\* do_upgrade, lines 102-108: one turn of the loop, chunk read and written
chunk_write ==
    /\ pc = "stream"
    /\ dl.stream # <<>>
    /\ LET chunk == Head(dl.stream)
           new == Progress(dl.downloaded, Len(chunk), dl.total_size)
       IN  /\ app' = [app EXCEPT !.bytes = WriteAt(@, dl.pos, chunk)]
           /\ dl' = [dl EXCEPT !.stream = Tail(@), !.pos = @ + Len(chunk), !.downloaded = new]
           /\ h' = [h EXCEPT !.positions = Append(@, new)]
    /\ UNCHANGED <<pc, marker, client, read_file, cur, feed, sel, result, exitCode, runs>>

\* do_upgrade, lines 102 and 110: the stream is at its end
stream_end ==
    /\ pc = "stream"
    /\ dl.stream = <<>>
    /\ pc' = "chmod"
    /\ UNCHANGED <<app, marker, client, read_file, cur, feed, sel, dl, result, exitCode, runs, h>>

\* set_permissions with its Result dropped: a failed chmod does not end do_upgrade
set_permissions_unchecked ==
    /\ pc = "chmod"
    /\ \/ /\ Return(Failed("do_upgrade", "Could not get metadata from APP_PATH"))
          /\ app' = app /\ h' = h
       \/ /\ app' = app
          /\ h' = [h EXCEPT !.chmods = @ + 1]
          /\ pc' = "write_marker"
          /\ result' = result
       \/ /\ app' = [app EXCEPT !.mode = Mode755]
          /\ h' = [h EXCEPT !.chmods = @ + 1, !.installOk = TRUE]
          /\ pc' = "write_marker"
          /\ result' = result
    /\ UNCHANGED <<marker, client, read_file, cur, feed, sel, dl, exitCode, runs>>

\* do_upgrade, lines 112-118: metadata, then set_permissions with mode 0o755
set_permissions ==
    /\ pc = "chmod"
    /\ \/ /\ Return(Failed("do_upgrade", "Could not get metadata from APP_PATH"))
          /\ app' = app /\ h' = h
       \/ /\ Return(Failed("do_upgrade", "Failed to set file permissions for APP_PATH"))
          /\ app' = app /\ h' = [h EXCEPT !.chmods = @ + 1]
       \/ /\ app' = [app EXCEPT !.mode = Mode755]
          /\ h' = [h EXCEPT !.chmods = @ + 1, !.installOk = TRUE]
          /\ pc' = "write_marker"
          /\ result' = result
    /\ UNCHANGED <<marker, client, read_file, cur, feed, sel, dl, exitCode, runs>>

\* the marker files a failed fs::write may leave: the file as it was (it could not be
\* opened), or truncated and holding a proper prefix of the new text
FailedWrites(m, text) ==
    { m } \cup { [exists |-> TRUE, text |-> Take(text, k)] : k \in 0..(Len(text) - 1) }

\* write_marker writing the version as a line, with a final newline
write_marker_newline ==
    /\ pc = "write_marker"
    /\ \/ /\ marker' = [exists |-> TRUE, text |-> to_string(sel.latest) \o <<"\n">>]
          /\ h' = [h EXCEPT !.markerWrites = @ + 1, !.markerOk = TRUE]
          /\ Return(Succeeded)
       \/ /\ marker' \in FailedWrites(marker, to_string(sel.latest))
          /\ h' = [h EXCEPT !.markerWrites = @ + 1]
          /\ Return(Failed("run", "Failed to write new version to VERSION"))
    /\ UNCHANGED <<app, client, read_file, cur, feed, sel, dl, exitCode, runs>>

\* run, lines 129-131: fs::write(VERSION, latest.to_string())
write_marker ==
    /\ pc = "write_marker"
    /\ \/ /\ marker' = [exists |-> TRUE, text |-> to_string(sel.latest)]
          /\ h' = [h EXCEPT !.markerWrites = @ + 1, !.markerOk = TRUE]
          /\ Return(Succeeded)
       \/ /\ marker' \in FailedWrites(marker, to_string(sel.latest))
          /\ h' = [h EXCEPT !.markerWrites = @ + 1]
          /\ Return(Failed("run", "Failed to write new version to VERSION"))
    /\ UNCHANGED <<app, client, read_file, cur, feed, sel, dl, exitCode, runs>>

----------------------------------------------------------------------------

Next ==
    \/ BuildRuntime
    \/ BuildClient
    \/ check_files
    \/ Spawn
    \/ get_current
    \/ get_latest_send
    \/ get_latest_parse
    \/ Join
    \/ Compare
    \/ download
    \/ open
    \/ chunk_read_fail
    \/ chunk_write_fail
    \/ chunk_write
    \/ stream_end
    \/ set_permissions
    \/ write_marker
    \/ report
    \/ NextRun

Spec == Init /\ [][Next]_vars

----------------------------------------------------------------------------
(* Properties *)

Ended == pc \in {"report", "exited"}

BothOk == cur.st = "ok" /\ feed.st = "ok"

InstallFailed == result.st = "err" /\ result.src = "do_upgrade"

StreamFailed ==
    /\ InstallFailed
    /\ result.msg \in {"Error while downloading 'nvim.appimage'", "Error while writing to APP_PATH"}

\* owner, group and other execute bits of a mode
Executable(mode) ==
    /\ (mode \div 64) % 2 = 1
    /\ (mode \div 8) % 2 = 1
    /\ mode % 2 = 1

\* the marker m records the version of the bytes of the artifact a
Reflects(m, a) ==
    /\ m.exists
    /\ a.exists
    /\ ParseVersion(m.text).ok
    /\ a.bytes = Payload(UrlText("appimage", ParseVersion(m.text).val))

\* C1: the marker is written only after do_upgrade has written every chunk of the
\* stream and the chmod to 0755 has succeeded; a run whose install failed at any step
\* leaves the marker as it was before the run.
C1_MarkerOnlyAfterInstall ==
    /\ (h.markerWrites > 0 \/ marker # h.marker0) =>
          /\ h.installOk
          /\ h.chmods = 1
          /\ dl.stream = <<>>
          /\ dl.pos = SumLen(h.sent)
          /\ Len(h.positions) = Len(h.sent)
          /\ app.mode = Mode755
          /\ pc \in {"report", "exited"}
    /\ InstallFailed => (marker = h.marker0 /\ h.markerWrites = 0)

\* C1 witness: a second run whose install failed mid-stream, after the artifact was
\* touched, with the marker of the first run still in place
C1_Witness ==
    /\ pc = "exited"
    /\ runs = 2
    /\ StreamFailed
    /\ app.bytes # h.app0.bytes
    /\ h.marker0.exists
    /\ marker = h.marker0

\* C2: when an artifact exists and do_upgrade fails at any step, the artifact's bytes
\* after the run are its bytes before the run (and the marker is untouched).
C2_FailedInstallKeepsArtifact ==
    (pc = "exited" /\ h.app0.exists /\ InstallFailed) =>
        (app.bytes = h.app0.bytes /\ marker = h.marker0)

\* C3: after a run has ended, successfully or with an error, the version the marker
\* records is the version of the artifact bytes present (given it was so before the run).
C3_MarkerReflectsArtifact ==
    (pc = "exited" /\ Reflects(h.marker0, h.app0)) => Reflects(marker, app)

\* C4: when all chunks were read and written and the chmod succeeded, the destination
\* file is as long as the chunks together and is executable by owner, group and other,
\* whatever was at the destination path before.
C4_InstalledLengthAndMode ==
    h.installOk => (Len(app.bytes) = SumLen(h.sent) /\ Executable(app.mode))

\* C5: when a chunk read or a chunk write fails mid-stream, the install fails and the
\* destination file is left partially written and not executable, whatever was at the
\* destination path before.
C5_FailedStreamLeavesNonExecutable ==
    (Ended /\ StreamFailed) =>
        /\ app.exists
        /\ Take(app.bytes, dl.pos) = Take(Flatten(h.sent), dl.pos)
        /\ dl.pos < SumLen(h.sent)
        /\ ~Executable(app.mode)

\* C6: when the version read and the feed query both succeeded and latest equals
\* current, the run ends UpToDate with success: no download request, the artifact is
\* neither opened nor modified, the marker is not written.
C6_UpToDateNoAction ==
    (Ended /\ BothOk /\ feed.val.version = cur.val) =>
        /\ result = Succeeded
        /\ h.compared = "UpToDate"
        /\ h.downReqs = 0
        /\ h.opens = 0
        /\ h.chmods = 0
        /\ h.markerWrites = 0
        /\ app = h.app0
        /\ marker = h.marker0
        /\ (pc = "exited" => exitCode = 0)

\* C6 witness: a run that ended with latest equal to the version read from the marker
C6_Witness ==
    /\ pc = "exited"
    /\ BothOk
    /\ read_file
    /\ feed.val.version = cur.val

\* C7: when the version read and the feed query both succeeded and latest is lower
\* than current, the run fails with the inconsistent-state error: no install, artifact
\* and marker unchanged.
C7_InconsistentFails ==
    (Ended /\ BothOk /\ Cmp(feed.val.version, cur.val) = "Less") =>
        /\ result = Failed("run", "How did you get a newer version than the latest?")
        /\ h.downReqs = 0
        /\ h.opens = 0
        /\ h.chmods = 0
        /\ h.markerWrites = 0
        /\ app = h.app0
        /\ marker = h.marker0
        /\ (pc = "exited" => exitCode # 0)

\* C7 witness: a run that ended with the marker ahead of the feed
C7_Witness ==
    /\ pc = "exited"
    /\ BothOk
    /\ Cmp(feed.val.version, cur.val) = "Less"

\* C8: when the version read and the feed query both succeeded, latest is greater than
\* current, and every install step and the marker write succeeded, the one download
\* request went to the AppImage url of that same release, and the run ends with the
\* marker holding latest and a success result.
C8_UpgradeWritesLatest ==
    (Ended /\ BothOk /\ Cmp(feed.val.version, cur.val) = "Greater"
       /\ h.installOk /\ h.markerOk) =>
        /\ h.downReqs = 1
        /\ h.reqUrl = UrlText("appimage", feed.val.version)
        /\ h.markerWrites = 1
        /\ marker.exists
        /\ marker.text = to_string(feed.val.version)
        /\ ParseVersion(marker.text) = Ok(feed.val.version)
        /\ result = Succeeded
        /\ (pc = "exited" => exitCode = 0)

\* C8 witness: an upgrade from an installed release to a newer one that went through
C8_Witness ==
    /\ pc = "exited"
    /\ BothOk
    /\ read_file
    /\ Cmp(feed.val.version, cur.val) = "Greater"
    /\ h.installOk
    /\ h.markerOk

NothingDone ==
    /\ h.compared = "no"
    /\ h.downReqs = 0
    /\ h.opens = 0
    /\ h.chmods = 0
    /\ h.markerWrites = 0
    /\ app = h.app0
    /\ marker = h.marker0

\* C9 as stated: if the feed query fails, the run fails with the feed's error in every
\* interleaving, also when the version read has itself failed, and no comparison,
\* install or marker write takes place.
C9_FeedErrorAlwaysReported ==
    (Ended /\ feed.st = "err") =>
        /\ result = Failed("get_latest", feed.msg)
        /\ NothingDone

\* C9 as amended: if the feed query fails, the run fails and no comparison, install or
\* marker write takes place; the error reported is the feed's when the version read has
\* not failed (still running, or succeeded), and the error of one of the two failed
\* tasks when the version read has failed as well.
C9_FeedErrorUnlessReadFailed ==
    (Ended /\ feed.st = "err") =>
        /\ result.st = "err"
        /\ NothingDone
        /\ (cur.st # "err" => result = Failed("get_latest", feed.msg))
        /\ (cur.st = "err" => result \in { Failed("get_latest", feed.msg),
                                           Failed("get_current", cur.msg) })

\* C9 witness: the feed query failed after the version read had succeeded
C9_Witness ==
    /\ pc = "exited"
    /\ feed.st = "err"
    /\ cur.st = "ok"
    /\ read_file

\* C10: the process exits with code 0 exactly when the run ended UpToDate or in a
\* successful upgrade (install and marker write both succeeded); every error, also a
\* failed marker write after a successful install and a failure before the run
\* starts, gives a non-zero exit code.
C10_ExitCode ==
    pc = "exited" =>
        /\ exitCode \in {0, 1}
        /\ exitCode = 0 <=>
             /\ BothOk
             /\ \/ Cmp(feed.val.version, cur.val) = "Equal"
                \/ Cmp(feed.val.version, cur.val) = "Greater" /\ h.installOk /\ h.markerOk
        /\ result.st = "err" => exitCode # 0

\* C10 witness: the marker write failed after a successful install
C10_Witness ==
    /\ pc = "exited"
    /\ exitCode = 1
    /\ h.installOk
    /\ ~h.markerOk
    /\ h.markerWrites = 1

\* bytes the first i chunks of the stream hold together
Cumulative(i) == SumLen(SubSeq(h.sent, 1, i))

\* C11: the progress position reported after each chunk is the number of bytes written
\* so far capped at the declared total: it never exceeds the total and never decreases
\* from one chunk to the next, also when the stream delivers more bytes than declared.
C11_ProgressCapped ==
    /\ Len(h.positions) <= Len(h.sent)
    /\ \A i \in 1..Len(h.positions) :
         /\ h.positions[i] = min(Cumulative(i), dl.total_size)
         /\ h.positions[i] <= dl.total_size
         /\ (i > 1 => h.positions[i - 1] <= h.positions[i])
    /\ (pc = "stream" => Len(h.positions) = Len(h.sent) - Len(dl.stream))
    /\ (Len(h.positions) > 0 => dl.downloaded = h.positions[Len(h.positions)])

\* C11 witness: two chunks written, and more bytes delivered than were declared
C11_Witness ==
    /\ Len(h.positions) >= 2
    /\ dl.pos > dl.total_size
    /\ dl.total_size > 0
    /\ h.positions[Len(h.positions)] = dl.total_size

Spawned == cur.st # "idle"

\* C12: get_current with read_file = FALSE returns 0.0.0 without reading the marker,
\* whatever the marker file holds and whether it exists; check_files gives FALSE
\* whenever the artifact or the marker is missing (and TRUE when both exist).
C12_SentinelWithoutRead ==
    /\ (pc = "run" \/ Spawned) => (read_file <=> (h.app0.exists /\ h.marker0.exists))
    /\ ~read_file => h.markerReads = 0
    /\ (Spawned /\ ~read_file /\ cur.st # "pending") => cur = TaskOk(Sentinel)

\* C12 witness: the artifact is missing, the marker holds 1.3.0, and get_current has
\* returned
C12_Witness ==
    /\ Spawned
    /\ ~read_file
    /\ cur.st = "ok"
    /\ ~h.app0.exists
    /\ marker = MarkerOf(<<1, 3, 0>>)

\* the feed response has been decoded and get_latest has returned
Decoded == h.resp.json /\ feed.st \in {"ok", "err"}

\* what the extraction is to yield for a body of the given shape: the version of the
\* tag that is the second word of the second line, or the first step that fails
ExpectedVersion(shape) ==
    IF Len(shape.lines) < 2 THEN Err("Could not get second line of 'body'")
    ELSE IF Len(shape.lines[2]) < 2
    THEN Err("Could not get second segment of second line of 'body'")
    ELSE LET t == shape.lines[2][2] IN
         CASE t.kind = "version" -> Ok(t.ver)
           [] t.kind = "badversion" -> Err("Failed to parse version from 'body'")
           [] OTHER -> Err("Could not strip 'v' from segment")

\* C13: the version is taken from the second word of the second line of the body: the
\* result is X.Y.Z when that word is vX.Y.Z, and otherwise the failure names the first
\* step that could not be done (second line, second word, prefix 'v', parse).
C13_VersionExtraction ==
    Decoded =>
        LET e == ExpectedVersion(h.resp.shape) IN
        IF e.ok THEN (feed.st = "ok" => feed.val.version = e.val)
                     /\ (feed.st = "err" => feed.msg \in {"Could not find correct asset",
                                                          "Failed to parse Url from JSON"})
        ELSE feed = TaskErr(e.val)

\* C13 witness: a body whose second line holds the tag after an empty first word, and
\* the version has been extracted from it
C13_Witness ==
    /\ Decoded
    /\ feed.st = "ok"
    /\ Len(h.resp.shape.lines) = 2
    /\ h.resp.shape.lines[2][1] = Empty
    /\ feed.val.version = <<1, 3, 0>>

\* positions of the assets with exactly the AppImage content type
Matching(assets) == { i \in 1..Len(assets) : assets[i].content_type = AppImageType }

\* C14: the download url is that of the first asset, in list order, whose content type
\* is exactly application/vnd.appimage; with no such asset get_latest fails with
\* not-found; with one it is that one; with several it is the first.
C14_AssetSelection ==
    (Decoded /\ ExpectedVersion(h.resp.shape).ok) =>
        LET A == h.resp.assets
            M == Matching(A)
        IN  IF M = {} THEN feed = TaskErr("Could not find correct asset")
            ELSE LET i == CHOOSE k \in M : \A j \in M : k <= j
                     u == ParseUrl(A[i].browser_download_url)
                 IN  IF u.ok THEN feed.st = "ok" /\ feed.val.down_url = A[i].browser_download_url
                     ELSE feed = TaskErr("Failed to parse Url from JSON")

\* C14 witness: two assets match, the first of them is not at the head of the list,
\* and its url has been selected
C14_Witness ==
    /\ Decoded
    /\ feed.st = "ok"
    /\ Cardinality(Matching(h.resp.assets)) = 2
    /\ 1 \notin Matching(h.resp.assets)
    /\ feed.val.down_url = UrlText("appimage", <<1, 3, 0>>)

\* the run is at or past the comparison of line 124
PastJoin ==
    \/ pc \in {"compare", "do_upgrade", "open", "stream", "chmod", "write_marker"}
    \/ h.compared # "no"
    \/ h.downReqs > 0
    \/ h.opens > 0
    \/ h.chmods > 0
    \/ h.markerWrites > 0
    \/ app # h.app0
    \/ marker # h.marker0

\* C15: the comparison and everything after it (download, install, marker write)
\* happen only after both the version read and the feed query have completed
\* successfully, on their two results; if either fails none of these steps is taken.
C15_JoinBeforeCompare ==
    /\ PastJoin =>
          /\ BothOk
          /\ sel = [current |-> cur.val, latest |-> feed.val.version,
                    down_url |-> feed.val.down_url]
    /\ (cur.st = "err" \/ feed.st = "err") => ~PastJoin
    /\ (Ended /\ (cur.st = "err" \/ feed.st = "err")) => result.st = "err"

\* C15 witness: the version read has failed while the feed query succeeded, and the run
\* has ended
C15_Witness ==
    /\ pc = "exited"
    /\ cur.st = "err"
    /\ feed.st = "ok"

AtMostOnce ==
    /\ h.feedReqs <= 1
    /\ h.downReqs <= 1
    /\ h.opens <= 1
    /\ h.chmods <= 1
    /\ h.markerWrites <= 1

\* what has been done when the run ended with the failure of a step of the upgrade:
\* the steps before it once, the steps after it never
FailureEndsRun ==
    (Ended /\ result.st = "err" /\ result.src \in {"do_upgrade", "run"}) =>
        CASE result.msg \in {"Download GET request failed", "Failed to get size of response body."}
               -> h.downReqs = 1 /\ h.opens = 0 /\ h.chmods = 0 /\ h.markerWrites = 0
          [] result.msg = "Failed to access APP_PATH"
               -> h.downReqs = 1 /\ h.opens = 1 /\ h.positions = <<>> /\ h.chmods = 0
                  /\ h.markerWrites = 0
          [] result.msg \in {"Error while downloading 'nvim.appimage'",
                             "Error while writing to APP_PATH",
                             "Could not get metadata from APP_PATH"}
               -> h.opens = 1 /\ h.chmods = 0 /\ h.markerWrites = 0
          [] result.msg = "Failed to set file permissions for APP_PATH"
               -> h.opens = 1 /\ h.chmods = 1 /\ h.markerWrites = 0
          [] result.msg = "Failed to write new version to VERSION"
               -> h.chmods = 1 /\ h.markerWrites = 1 /\ ~h.markerOk
          [] OTHER -> h.downReqs = 0 /\ h.opens = 0 /\ h.markerWrites = 0

\* C16 as stated: nothing is retried within a run (at most one feed request, download
\* request, open of the destination, chmod and marker write), and the first failure of
\* any of them ends the run with that failure.
C16_FirstFailureReported ==
    /\ AtMostOnce
    /\ result.st = "err" => Ended
    /\ FailureEndsRun
    /\ (Ended /\ feed = TaskErr("JSON Request Failed")) =>
           result = Failed("get_latest", "JSON Request Failed")

\* C16 as amended: nothing is retried within a run, and the first failure of any of
\* these steps ends the run; the run ends with that failure, except that a failed feed
\* request is reported as the version read's failure when the version read failed too.
C16_NoRetry ==
    /\ AtMostOnce
    /\ result.st = "err" => Ended
    /\ FailureEndsRun
    /\ (Ended /\ feed = TaskErr("JSON Request Failed")) =>
           /\ h.feedReqs = 1
           /\ NothingDone
           /\ IF cur.st = "err" THEN result \in { Failed("get_latest", feed.msg),
                                                  Failed("get_current", cur.msg) }
              ELSE result = Failed("get_latest", "JSON Request Failed")

\* C16 witness: the download request failed and the run ended without opening the file
C16_Witness ==
    /\ pc = "exited"
    /\ result = Failed("do_upgrade", "Download GET request failed")
    /\ h.feedReqs = 1
    /\ h.downReqs = 1

\* the version a marker file records, if its text is one
Recorded(m) == IF m.exists THEN ParseVersion(m.text) ELSE Err("no marker")

\* C17 as stated: across runs the version recorded in the marker never decreases:
\* whenever a run overwrites the marker, the new version is strictly greater than the
\* version the marker held before that run, also when the marker exists but the
\* artifact is missing at the existence check.
C17_MarkerNeverDecreases ==
    (marker # h.marker0 /\ Recorded(h.marker0).ok /\ Recorded(marker).ok) =>
        Cmp(Recorded(marker).val, Recorded(h.marker0).val) = "Greater"

\* C17 as amended: in the runs whose existence check found both the artifact and the
\* marker, the recorded version never decreases: when such a run overwrites the marker
\* with a version, that version is strictly greater than the one it held before. (A run
\* that found the artifact missing does not read the marker and writes the feed's
\* latest version, which may be lower.)
C17_MarkerGrowsWhenRead ==
    /\ (read_file /\ marker # h.marker0 /\ Recorded(marker).ok) =>
          /\ Recorded(h.marker0).ok
          /\ Cmp(Recorded(marker).val, Recorded(h.marker0).val) = "Greater"
          /\ Recorded(marker).val = sel.latest
    /\ (~read_file /\ marker # h.marker0 /\ Recorded(marker).ok) =>
          Recorded(marker).val = sel.latest

\* C17 witness: a second run read the marker the first run wrote and replaced it
C17_Witness ==
    /\ pc = "exited"
    /\ runs = 2
    /\ read_file
    /\ h.markerOk
    /\ marker # h.marker0

\* the run before this one ended in a successful upgrade to v, and the feed has now
\* answered with v as latest again
AfterUpgradeTo(v) ==
    /\ h.prev.upgraded
    /\ h.prev.latest = v
    /\ feed.st = "ok"
    /\ feed.val.version = v

\* C18: after a run that ended in a successful upgrade to v, a following run against a
\* feed that still reports v finds artifact and marker, reads v back from the marker
\* (the read failing only on an I/O fault, never on the text), ends UpToDate, issues no
\* download request and leaves artifact and marker unchanged.
C18_UpgradeIdempotent ==
    \A v \in Releases :
        AfterUpgradeTo(v) =>
            /\ h.marker0 = MarkerOf(v)
            /\ h.app0.exists
            /\ read_file
            /\ (cur.st = "ok" => cur.val = v)
            /\ (cur.st = "err" => cur.msg = "Failed to access VERSION")
            /\ (Ended /\ cur.st = "ok") =>
                   /\ result = Succeeded
                   /\ h.compared = "UpToDate"
                   /\ h.downReqs = 0
                   /\ h.opens = 0
                   /\ h.markerWrites = 0
                   /\ app = h.app0
                   /\ marker = h.marker0

\* C18 witness: the second run ended after the first upgraded to 1.3.0 and the feed
\* reported 1.3.0 again
C18_Witness ==
    /\ pc = "exited"
    /\ runs = 2
    /\ AfterUpgradeTo(<<1, 3, 0>>)
    /\ cur.st = "ok"
    /\ exitCode = 0

RequestFailed ==
    result \in { Failed("do_upgrade", "Download GET request failed"),
                 Failed("do_upgrade", "Failed to get size of response body.") }

\* C19: if the download request fails or the response has no content length, do_upgrade
\* fails before the destination file is opened: the artifact path is neither created
\* nor modified, and the marker is unchanged.
C19_RequestFailureTouchesNothing ==
    RequestFailed =>
        /\ Ended
        /\ h.downReqs = 1
        /\ h.opens = 0
        /\ h.chmods = 0
        /\ h.markerWrites = 0
        /\ h.positions = <<>>
        /\ app = h.app0
        /\ marker = h.marker0

\* C19 witness: no artifact was installed, the response had no content length, and the
\* run ended with no file at the artifact path
C19_Witness ==
    /\ pc = "exited"
    /\ result = Failed("do_upgrade", "Failed to get size of response body.")
    /\ ~app.exists

====
